---- MODULE Spec2Model ----
(***************************************************************************)
(* Session store of the state-transition analysis (src/src/data_store.py): *)
(* ingestion of CSV batches with file-level and session-level              *)
(* deduplication, over the SQLite and the Parquet backend, and the read    *)
(* path (query, cohort query).                                             *)
(*                                                                         *)
(* A CSV file is modelled by the sequence of its rows; the file's name and *)
(* its content are the same thing here.  A row carries the four columns    *)
(* the store's logic reads: SESSION_ID, USER_ID, SESSION_NUMBER and        *)
(* SESSION_START (a tick count; date() takes the day a tick falls in).     *)
(* The metadata columns _imported_at and _source_file that ingestion adds  *)
(* are written and never read by the store, and are left out.              *)
(***************************************************************************)
EXTENDS Integers, Sequences, FiniteSets, TLC

\* Rows per CSV file.
MaxBatch == 2

\* Processes that ingest at the same time.
NumProcs == 2

\* ingest_csv calls the ingesting processes begin, in all.
MaxIngests == 2

\* Filters one query call supplies at most.
MaxFilters == 2

\* Ticks per calendar day: date(SESSION_START) = SESSION_START \div TicksPerDay.
TicksPerDay == 2

\* _file_hash reads the first 1024 * 1024 bytes only; a row stands for that
\* much of a file here, so two files with the same first row share a hash.
HashPrefixRows == 1

\* A null cell (NaN in pandas, NULL in SQLite); only SESSION_NUMBER is ever
\* null in this model and real session numbers are >= 0.
NULL == -1

Min(a, b) == IF a <= b THEN a ELSE b

Range(s) == {s[i] : i \in DOMAIN s}

SeqsUpTo(S, n) == UNION {[1..k -> S] : k \in 0..n}

\* The rows a CSV file can hold.
Rows ==
    { [SESSION_ID |-> 1, USER_ID |-> 1, SESSION_NUMBER |-> 1,    SESSION_START |-> 1],
      [SESSION_ID |-> 2, USER_ID |-> 1, SESSION_NUMBER |-> 2,    SESSION_START |-> 4],
      [SESSION_ID |-> 1, USER_ID |-> 2, SESSION_NUMBER |-> 1,    SESSION_START |-> 2],
      [SESSION_ID |-> 2, USER_ID |-> 2, SESSION_NUMBER |-> NULL, SESSION_START |-> 3] }

\* The CSV files ingest_csv can be called with.
Files == SeqsUpTo(Rows, MaxBatch)

Backends == {"sqlite", "parquet"}

\* The record of one call: the operation, its arguments and what it returned.
Call(op, args, value) == [op |-> op, args |-> args, ret |-> value]

VARIABLES
    backend,         \* DataStore.backend
    sessions,        \* the sessions table / the rows of the parquet file
    parquet_exists,  \* parquet_path.exists()
    import_log,      \* the import_log table (SQLite only)
    result,          \* what the last call returned (with the call's arguments)
    proc,            \* per ingesting process: where it is in ingest_csv, its locals
    ret,             \* per ingesting process: how its last ingest_csv ended
    started,         \* ingest_csv calls begun by the ingesting processes
    cache,           \* the dashboard's st.cache_data entries, per cached function
    clock            \* the time the cache entries' ttl is measured against

vars == <<backend, sessions, parquet_exists, import_log, result, proc, ret, started,
          cache, clock>>

store == <<backend, sessions, parquet_exists, import_log>>

procs == <<proc, ret, started>>

caches == <<cache, clock>>

\* st.cache_data before any cached function has run.
NoCache == [get_store_stats |-> {}, load_and_process |-> {},
            compute_all_metrics |-> {}]

----------------------------------------------------------------------------
(* Ingestion *)

\* hashlib.md5 over the first 1 MB: injective on the prefix it reads.
_file_hash(path) == SubSeq(path, 1, Min(Len(path), HashPrefixRows))

_already_imported(b, log, file_hash) ==
    IF b = "sqlite"
    THEN \E e \in log : e.file_hash = file_hash
    ELSE FALSE

SessionIds(table) == {table[i].SESSION_ID : i \in DOMAIN table}

\* df[~df['SESSION_ID'].isin(existing)]
NewSessions(df, existing) ==
    LET isNew(r) == r.SESSION_ID \notin existing
    IN  SelectSeq(df, isNew)

\* The PRIMARY KEY of sessions: no two rows of the table share a SESSION_ID.
PrimaryKeyOk(table) ==
    \A i, j \in DOMAIN table :
        table[i].SESSION_ID = table[j].SESSION_ID => i = j

\* new_sessions.to_sql('sessions', conn, if_exists='append'): one
\* transaction that inserts every row or, on a key conflict, none.
to_sql(table, new_sessions) ==
    IF PrimaryKeyOk(table \o new_sessions)
    THEN [ok |-> TRUE,  table |-> table \o new_sessions]
    ELSE [ok |-> FALSE, table |-> table]

\* INSERT OR REPLACE INTO import_log: file_hash is the PRIMARY KEY.  The
\* file_name and imported_at columns are not modelled.
LogImport(log, file_hash, rows_imported) ==
    {e \in log : e.file_hash # file_hash}
        \cup {[file_hash |-> file_hash, rows_imported |-> rows_imported]}

Success(new_sessions, df) ==
    [status |-> "success", new_rows |-> Len(new_sessions),
     duplicate_rows |-> Len(df) - Len(new_sessions)]

Raised(error) ==
    [status |-> "error", error |-> error]

\* The whole of _ingest_to_sqlite: the state it leaves and what it returns.
_ingest_to_sqlite(table, log, csv, file_hash) ==
    LET df           == csv
        existing     == SessionIds(table)
        new_sessions == NewSessions(df, existing)
        ins          == IF Len(new_sessions) > 0
                        THEN to_sql(table, new_sessions)
                        ELSE [ok |-> TRUE, table |-> table]
    IN  IF ins.ok
        THEN [sessions   |-> ins.table,
              import_log |-> LogImport(log, file_hash, Len(new_sessions)),
              stats      |-> Success(new_sessions, df)]
        ELSE [sessions   |-> table,
              import_log |-> log,
              stats      |-> Raised("IntegrityError")]

\* A rewrite of the parquet file that forgets what it held.
Combined_NewOnly(existing, new_sessions) == new_sessions

\* pd.concat([existing, new_sessions]) written over the parquet file.
Combined(existing, new_sessions) == existing \o new_sessions

\* The whole of _ingest_to_parquet.
_ingest_to_parquet(table, exists, csv, file_hash) ==
    LET df           == csv
        existing_ids == SessionIds(table)
        new_sessions == IF exists THEN NewSessions(df, existing_ids) ELSE df
    IN  [sessions |-> IF exists
                      THEN IF Len(new_sessions) > 0
                           THEN Combined(table, new_sessions)
                           ELSE table
                      ELSE df,
         stats    |-> Success(new_sessions, df)]

\* DataStore.ingest_csv(csv_path, skip_if_imported)
IngestCsv(csv, skip_if_imported) ==
    LET file_hash == _file_hash(csv)
        args      == [csv_path |-> csv, skip_if_imported |-> skip_if_imported]
    IN  IF skip_if_imported /\ _already_imported(backend, import_log, file_hash)
        THEN /\ result' = Call("ingest_csv", args,
                               [status |-> "skipped", reason |-> "already_imported"])
             /\ UNCHANGED <<backend, sessions, parquet_exists, import_log, procs, caches>>
        ELSE IF backend = "sqlite"
        THEN LET out == _ingest_to_sqlite(sessions, import_log, csv, file_hash)
             IN  /\ sessions' = out.sessions
                 /\ import_log' = out.import_log
                 /\ result' = Call("ingest_csv", args, out.stats)
                 /\ UNCHANGED <<backend, parquet_exists, procs, caches>>
        ELSE LET out == _ingest_to_parquet(sessions, parquet_exists, csv, file_hash)
             IN  /\ sessions' = out.sessions
                 /\ parquet_exists' = TRUE
                 /\ result' = Call("ingest_csv", args, out.stats)
                 /\ UNCHANGED <<backend, import_log, procs, caches>>

----------------------------------------------------------------------------
(* The read path *)

\* An Optional[...] argument: None is the empty set, a value v is {v}.
None == {}

Some(v) == {v}

Value(opt) == CHOOSE v \in opt : TRUE

\* `if start_date:` on an Optional[str] holding None or a YYYY-MM-DD date.
TruthyDate(opt) == opt # None

\* `if user_ids:` on an Optional[List[str]]: None and [] are both falsy.
TruthyList(opt) == opt # None /\ Value(opt) # {}

\* `if min_session_number:` on an Optional[int]: None and 0 are both falsy.
TruthyInt(opt) == opt # None /\ Value(opt) # 0

\* date(SESSION_START) in SQL, SESSION_START.dt.date in pandas.
date(session_start) == session_start \div TicksPerDay

\* A comparison with a null SESSION_NUMBER is false in SQL and in pandas.
NumberGE(r, n) == r.SESSION_NUMBER # NULL /\ r.SESSION_NUMBER >= n

NumberLE(r, n) == r.SESSION_NUMBER # NULL /\ r.SESSION_NUMBER <= n

\* ORDER BY USER_ID, SESSION_NUMBER puts a NULL first (SQLite);
\* sort_values(['USER_ID', 'SESSION_NUMBER']) puts a NaN last (pandas).
\* nulls_last says which; the sort key of a row is (USER_ID, SESSION_NUMBER).
KeyBefore(a, b, nulls_last) ==
    LET num(r) == IF r.SESSION_NUMBER = NULL /\ nulls_last
                  THEN 1000000
                  ELSE r.SESSION_NUMBER
    IN  \/ a.USER_ID < b.USER_ID
        \/ a.USER_ID = b.USER_ID /\ num(a) < num(b)

RECURSIVE InsertRow(_, _, _)
InsertRow(r, sorted, nulls_last) ==
    IF sorted = <<>>
    THEN <<r>>
    ELSE IF KeyBefore(r, Head(sorted), nulls_last)
    THEN <<r>> \o sorted
    ELSE <<Head(sorted)>> \o InsertRow(r, Tail(sorted), nulls_last)

RECURSIVE OrderBy(_, _)
OrderBy(table, nulls_last) ==
    IF table = <<>>
    THEN <<>>
    ELSE InsertRow(table[Len(table)],
                   OrderBy(SubSeq(table, 1, Len(table) - 1), nulls_last),
                   nulls_last)

\* The WHERE clause _query_sqlite builds: one condition per truthy argument.
_query_sqlite(table, start_date, end_date, user_ids, min_session_number, max_session_number) ==
    LET where(r) ==
            /\ TruthyDate(start_date) =>
                   date(r.SESSION_START) >= Value(start_date)
            /\ TruthyDate(end_date) =>
                   date(r.SESSION_START) <= Value(end_date)
            /\ TruthyList(user_ids) => r.USER_ID \in Value(user_ids)
            /\ TruthyInt(min_session_number) =>
                   NumberGE(r, Value(min_session_number))
            /\ TruthyInt(max_session_number) =>
                   NumberLE(r, Value(max_session_number))
    IN  OrderBy(SelectSeq(table, where), FALSE)

\* _query_parquet narrows the frame once per truthy argument, then sorts.
_query_parquet(exists, table, start_date, end_date, user_ids, min_session_number, max_session_number) ==
    LET from(r)   == date(r.SESSION_START) >= Value(start_date)
        to(r)     == date(r.SESSION_START) <= Value(end_date)
        users(r)  == r.USER_ID \in Value(user_ids)
        atleast(r) == NumberGE(r, Value(min_session_number))
        atmost(r) == NumberLE(r, Value(max_session_number))
        df0 == table
        df1 == IF TruthyDate(start_date) THEN SelectSeq(df0, from) ELSE df0
        df2 == IF TruthyDate(end_date) THEN SelectSeq(df1, to) ELSE df1
        df3 == IF TruthyList(user_ids) THEN SelectSeq(df2, users) ELSE df2
        df4 == IF TruthyInt(min_session_number) THEN SelectSeq(df3, atleast) ELSE df3
        df5 == IF TruthyInt(max_session_number) THEN SelectSeq(df4, atmost) ELSE df4
    IN  IF ~exists THEN <<>> ELSE OrderBy(df5, TRUE)

\* DataStore.query
query(b, exists, table, start_date, end_date, user_ids, min_session_number, max_session_number) ==
    IF b = "sqlite"
    THEN _query_sqlite(table, start_date, end_date, user_ids,
                       min_session_number, max_session_number)
    ELSE _query_parquet(exists, table, start_date, end_date, user_ids,
                        min_session_number, max_session_number)

\* DataStore.get_users_in_cohort.  The Parquet branch indexes the frame
\* query() returns by 'SESSION_NUMBER'; while the file does not exist that
\* frame is pd.DataFrame(), which has no such column: a KeyError.
get_users_in_cohort(b, exists, table, cohort_start, cohort_end) ==
    LET first_sessions ==
            {r \in Range(table) :
                /\ r.SESSION_NUMBER = 1
                /\ date(r.SESSION_START) >= cohort_start
                /\ date(r.SESSION_START) <= cohort_end}
    IN  IF b = "parquet" /\ ~exists
        THEN [ok |-> FALSE, user_ids |-> {}]
        ELSE [ok |-> TRUE, user_ids |-> {r.USER_ID : r \in first_sessions}]

Rows_(rows) == [status |-> "ok", rows |-> rows]

\* DataStore.get_cohort_sessions
get_cohort_sessions(b, exists, table, cohort_start, cohort_end, include_future_sessions) ==
    LET cohort == get_users_in_cohort(b, exists, table, cohort_start, cohort_end)
    IN  IF ~cohort.ok
        THEN Raised("KeyError")
        ELSE IF cohort.user_ids = {}
        THEN Rows_(<<>>)
        ELSE IF include_future_sessions
        THEN Rows_(query(b, exists, table, None, None,
                         Some(cohort.user_ids), None, None))
        ELSE Rows_(query(b, exists, table, None, Some(cohort_end),
                         Some(cohort.user_ids), None, None))

\* The arguments the read path is called with.
ArgDates == {None, Some(1)}

ArgUserIds == {None, Some({}), Some({1})}

ArgNumbers == {None, Some(0), Some(1)}

CohortDates == 0..1

\* The filters a call supplies (the arguments that are not None).
Supplied(args) == {f \in DOMAIN args : args[f] # None}

\* The argument lists of query: at most MaxFilters filters at a time.
QueryArgs ==
    {args \in [start_date : ArgDates, end_date : ArgDates, user_ids : ArgUserIds,
               min_session_number : ArgNumbers, max_session_number : ArgNumbers] :
        Cardinality(Supplied(args)) <= MaxFilters}

Query(args) ==
    /\ result' = Call("query", args,
                      Rows_(query(backend, parquet_exists, sessions,
                                  args.start_date, args.end_date, args.user_ids,
                                  args.min_session_number,
                                  args.max_session_number)))
    /\ UNCHANGED <<store, procs, caches>>

GetCohortSessions(cohort_start, cohort_end, include_future_sessions) ==
    /\ result' = Call("get_cohort_sessions",
                      [cohort_start |-> cohort_start, cohort_end |-> cohort_end,
                       include_future_sessions |-> include_future_sessions],
                      get_cohort_sessions(backend, parquet_exists, sessions,
                                          cohort_start, cohort_end,
                                          include_future_sessions))
    /\ UNCHANGED <<store, procs, caches>>

----------------------------------------------------------------------------
(* ingest_csv step by step, for calls that overlap or are cut short.       *)
(* Each step is one access to the store: a read over its own connection, a *)
(* committed transaction (to_sql commits the rows it inserts; the          *)
(* import-log INSERT is committed by conn.commit()), or one file write.    *)

Procs == 1..NumProcs

Idle == [pc |-> "idle", csv |-> <<>>, skip |-> FALSE,
         existed |-> FALSE, existing |-> <<>>, new_sessions |-> <<>>]

NoCall == [status |-> "none", csv |-> <<>>, new_sessions |-> <<>>, admitted |-> FALSE]

\* How a call ended: its return value (or the exception, or "interrupted"),
\* its file, the rows it took for new and whether it had appended them.
Ended(p, stats, admitted) ==
    [status       |-> stats.status,
     stats        |-> stats,
     csv          |-> proc[p].csv,
     new_sessions |-> proc[p].new_sessions,
     admitted     |-> admitted]

\* ingest_csv lines 103-117: hash the file, ask the import log, load the CSV.
BeginIngest(p, csv, skip_if_imported) ==
    /\ proc[p].pc = "idle"
    /\ started < MaxIngests
    /\ started' = started + 1
    /\ IF skip_if_imported /\ _already_imported(backend, import_log, _file_hash(csv))
       THEN /\ ret' = [ret EXCEPT ![p] =
                          [status |-> "skipped",
                           stats |-> [status |-> "skipped", reason |-> "already_imported"],
                           csv |-> csv, new_sessions |-> <<>>, admitted |-> FALSE]]
            /\ UNCHANGED proc
       ELSE /\ proc' = [proc EXCEPT ![p] =
                          [Idle EXCEPT !.pc = "loaded", !.csv = csv,
                                       !.skip = skip_if_imported]]
            /\ UNCHANGED ret
    /\ UNCHANGED <<store, result, caches>>

\* _ingest_to_sqlite lines 177-183 / _ingest_to_parquet lines 225-228, 234:
\* read what is stored and take the rows whose id is not among it for new.
ReadExisting(p) ==
    /\ proc[p].pc = "loaded"
    /\ LET df == proc[p].csv
           existed == backend = "sqlite" \/ parquet_exists
       IN  proc' = [proc EXCEPT ![p].pc = "diffed",
                                ![p].existed = existed,
                                ![p].existing = sessions,
                                ![p].new_sessions =
                                    IF existed
                                    THEN NewSessions(df, SessionIds(sessions))
                                    ELSE df]
    /\ UNCHANGED <<store, result, ret, started, caches>>

\* _ingest_to_sqlite lines 186-187 / _ingest_to_parquet lines 230-235.
AppendRows(p) ==
    /\ proc[p].pc = "diffed"
    /\ LET new_sessions == proc[p].new_sessions
       IN  IF backend = "sqlite"
           THEN LET ins == IF Len(new_sessions) > 0
                           THEN to_sql(sessions, new_sessions)
                           ELSE [ok |-> TRUE, table |-> sessions]
                IN  /\ sessions' = ins.table
                    /\ IF ins.ok
                       THEN /\ proc' = [proc EXCEPT ![p].pc = "appended"]
                            /\ UNCHANGED ret
                       ELSE /\ ret' = [ret EXCEPT ![p] =
                                          Ended(p, Raised("IntegrityError"), FALSE)]
                            /\ proc' = [proc EXCEPT ![p] = Idle]
                    /\ UNCHANGED parquet_exists
           ELSE /\ sessions' = IF proc[p].existed
                               THEN IF Len(new_sessions) > 0
                                    THEN Combined(proc[p].existing, new_sessions)
                                    ELSE sessions
                               ELSE proc[p].csv
                /\ parquet_exists' = TRUE
                /\ proc' = [proc EXCEPT ![p].pc = "appended"]
                /\ UNCHANGED ret
    /\ UNCHANGED <<backend, import_log, result, started, caches>>

\* _ingest_to_sqlite lines 190-203 / _ingest_to_parquet lines 237-241:
\* write the import-log entry (SQLite) and return the statistics.
LogAndReturn(p) ==
    /\ proc[p].pc = "appended"
    /\ import_log' = IF backend = "sqlite"
                     THEN LogImport(import_log, _file_hash(proc[p].csv),
                                    Len(proc[p].new_sessions))
                     ELSE import_log
    /\ ret' = [ret EXCEPT ![p] =
                  Ended(p, Success(proc[p].new_sessions, proc[p].csv), TRUE)]
    /\ proc' = [proc EXCEPT ![p] = Idle]
    /\ UNCHANGED <<backend, sessions, parquet_exists, result, started, caches>>

\* The process is killed (or its storage fails) between two steps: what it
\* has committed or written stays, the rest of the call never happens.
Interrupt(p) ==
    /\ proc[p].pc # "idle"
    /\ ret' = [ret EXCEPT ![p] =
                  Ended(p, [status |-> "interrupted"],
                        proc[p].pc = "appended" /\ Len(proc[p].new_sessions) > 0)]
    /\ proc' = [proc EXCEPT ![p] = Idle]
    /\ UNCHANGED <<store, result, started, caches>>

NoFilters == [start_date |-> None, end_date |-> None, user_ids |-> None,
              min_session_number |-> None, max_session_number |-> None]

----------------------------------------------------------------------------

\* DataStore.__init__: an empty sessions table and import log (SQLite), or
\* no file yet (Parquet).
Init ==
    /\ backend \in Backends
    /\ sessions = <<>>
    /\ parquet_exists = FALSE
    /\ import_log = {}
    /\ result = Call("init", <<>>, <<>>)
    /\ proc = [p \in Procs |-> Idle]
    /\ ret = [p \in Procs |-> NoCall]
    /\ started = 0
    /\ cache = NoCache
    /\ clock = 0

Next ==
    \/ \E csv \in Files, skip \in BOOLEAN : IngestCsv(csv, skip)
    \/ \E args \in QueryArgs : Query(args)
    \/ \E cohort_start \in CohortDates, cohort_end \in CohortDates,
          include_future \in BOOLEAN :
           GetCohortSessions(cohort_start, cohort_end, include_future)

Spec == Init /\ [][Next]_vars

\* Two processes ingest at the same time, either may be cut short, and a
\* reader queries the whole table at any moment.
NextConc ==
    \/ \E p \in Procs, csv \in Files, skip \in BOOLEAN : BeginIngest(p, csv, skip)
    \/ \E p \in Procs : ReadExisting(p)
    \/ \E p \in Procs : AppendRows(p)
    \/ \E p \in Procs : LogAndReturn(p)
    \/ \E p \in Procs : Interrupt(p)
    \/ Query(NoFilters)

SpecConc == Init /\ [][NextConc]_vars

----------------------------------------------------------------------------
(* Configuration (src/src/config.py) *)

STATE_NAMES == <<"Exploring", "Problem-Aware", "Purchase-Ready", "Purchased">>

States == DOMAIN STATE_NAMES

\* A string is the sequence of its characters, so that a prefix is a prefix.
Facebook == <<"F">>

\* Config(): the defaults of the dataclass fields the analysis reads.
DEFAULT_CONFIG ==
    [cohort_start |-> None, cohort_end |-> None, cohort_granularity |-> "W",
     min_cohort_size |-> 50, max_sessions_for_sankey |-> 3,
     exploring_traffic_sources |-> <<Facebook>>]

\* Config.__post_init__: the config object, or the ValueError it raises.
__post_init__(self) ==
    LET valid_granularities == {"D", "W", "M"}
    IN  IF self.cohort_granularity \notin valid_granularities
        THEN Raised("ValueError")
        ELSE IF /\ TruthyDate(self.cohort_start) /\ TruthyDate(self.cohort_end)
                /\ Value(self.cohort_start) > Value(self.cohort_end)
        THEN Raised("ValueError")
        ELSE [status |-> "ok", config |-> self]

\* The values a caller constructs a Config with.
Granularities == {"D", "W", "M", "Q"}

CohortSizes == {-1, 0, 1, 50}

ConfigDates == {None, Some(0), Some(1)}

\* Config(cohort_start=..., cohort_end=..., cohort_granularity=...,
\* min_cohort_size=...): the dataclass sets the fields, then validates.
NewConfig(cohort_start, cohort_end, cohort_granularity, min_cohort_size) ==
    LET self == [DEFAULT_CONFIG EXCEPT !.cohort_start = cohort_start,
                                       !.cohort_end = cohort_end,
                                       !.cohort_granularity = cohort_granularity,
                                       !.min_cohort_size = min_cohort_size]
    IN  /\ result' = Call("Config", self, __post_init__(self))
        /\ UNCHANGED <<store, procs, caches>>

----------------------------------------------------------------------------
(* State assignment (src/src/state_assignment.py) *)

\* Series.fillna(value) on one cell.
fillna(cell, value) == IF cell = None THEN value ELSE Value(cell)

\* str.startswith: case-sensitive, character by character.
startswith(s, pattern) ==
    /\ Len(pattern) <= Len(s)
    /\ SubSeq(s, 1, Len(pattern)) = pattern

_check_traffic_sources(traffic, source_patterns) ==
    LET traffic_filled == fillna(traffic, <<>>)
    IN  IF source_patterns = <<>>
        THEN FALSE
        ELSE \E i \in DOMAIN source_patterns :
                 startswith(traffic_filled, source_patterns[i])

\* A selection in which the last condition that holds wins.
select_LastMatch(conditions, choices, default) ==
    IF \E i \in DOMAIN conditions : conditions[i]
    THEN choices[CHOOSE i \in DOMAIN conditions :
                     /\ conditions[i]
                     /\ \A j \in DOMAIN conditions : j > i => ~conditions[j]]
    ELSE default

\* np.select(conditions, choices, default) on one row: the choice of the
\* first condition that holds.
select(conditions, choices, default) ==
    IF \E i \in DOMAIN conditions : conditions[i]
    THEN choices[CHOOSE i \in DOMAIN conditions :
                     /\ conditions[i]
                     /\ \A j \in DOMAIN conditions : j < i => ~conditions[j]]
    ELSE default

\* A comparison with a null SESSION_NUMBER (NaN) is false.
NumberGT(r, n) == r.SESSION_NUMBER # NULL /\ r.SESSION_NUMBER > n

NumberEQ(r, n) == r.SESSION_NUMBER # NULL /\ r.SESSION_NUMBER = n

\* assign_states: the frame with the STATE column added (the field State
\* here), row by row.
assign_states(df, config) ==
    [i \in DOMAIN df |->
        LET r == df[i]
            is_exploring_source ==
                _check_traffic_sources(
                    r.SESSION_FIRST_TRAFFIC_SOURCE_CHANNEL_GROUPING,
                    config.exploring_traffic_sources)
            conditions ==
                << fillna(r.HAS_PURCHASE, FALSE),
                   fillna(r.HAS_ADD_TO_CART, FALSE)
                       \/ fillna(r.HAS_BEGIN_CHECKOUT, FALSE),
                   NumberGT(r, 1) \/ (NumberEQ(r, 1) /\ ~is_exploring_source) >>
            choices == <<4, 3, 2>>
            State == select(conditions, choices, 1)
        IN  [SESSION_NUMBER |-> r.SESSION_NUMBER,
             HAS_PURCHASE |-> r.HAS_PURCHASE,
             HAS_ADD_TO_CART |-> r.HAS_ADD_TO_CART,
             HAS_BEGIN_CHECKOUT |-> r.HAS_BEGIN_CHECKOUT,
             SESSION_FIRST_TRAFFIC_SOURCE_CHANNEL_GROUPING |->
                 r.SESSION_FIRST_TRAFFIC_SOURCE_CHANNEL_GROUPING,
             State |-> State,
             STATE_NAME |-> STATE_NAMES[State]]]

\* A flag cell: True, False or null.
Flags == {None, Some(FALSE), Some(TRUE)}

\* A channel cell: null, "", "F" (the configured prefix), "Fa" (a longer
\* name with that prefix), "f" (the prefix in lower case), "G".
Channels ==
    {None, Some(<<>>), Some(<<"F">>), Some(<<"F", "a">>), Some(<<"f">>),
     Some(<<"G">>)}

SessionNumbers == {NULL, 0, 1, 2}

\* config.exploring_traffic_sources: no prefix, the default, two prefixes.
ExploringSources == {<<>>, <<Facebook>>, <<Facebook, <<"G">>>>}

UnclassifiedSessions ==
    [SESSION_NUMBER : SessionNumbers,
     HAS_PURCHASE : Flags, HAS_ADD_TO_CART : Flags, HAS_BEGIN_CHECKOUT : Flags,
     SESSION_FIRST_TRAFFIC_SOURCE_CHANNEL_GROUPING : Channels]

AssignStates(df, exploring_traffic_sources) ==
    LET config == [DEFAULT_CONFIG EXCEPT
                      !.exploring_traffic_sources = exploring_traffic_sources]
    IN  /\ result' = Call("assign_states",
                          [df |-> df, config |-> config],
                          assign_states(df, config))
        /\ UNCHANGED <<store, procs, caches>>

----------------------------------------------------------------------------
(* Metrics (src/src/metrics.py): the transition matrices *)

\* Rows of a classified table.
MaxRows == 3

\* Sessions of the single-user histories the matrices are also computed on.
MaxHistory == 6

\* Session ordinals build_sankey_data is asked for at most.
MaxSankeySessions == 3

UserIds == {1, 2}

\* The sessions of a classified table: the columns the metrics read.  The
\* STATE column is the field State; timestamps are left out (they enter
\* only first_reached_at and days_to_state of calculate_time_to_state).
\* Session numbers of a classified table are not null here.
ClassifiedSessions(numbers, states, channels, cohorts) ==
    [USER_ID : UserIds, SESSION_NUMBER : numbers, State : states,
     SESSION_FIRST_TRAFFIC_SOURCE_CHANNEL_GROUPING : channels,
     COHORT_PERIOD : cohorts]

\* round(decimals) of the quotient a / b, as an integer count of the last
\* decimal kept: to nearest, a tie to the even neighbour (numpy).
RoundHalfEven(a, b) ==
    LET q == a \div b
        r == a % b
    IN  IF 2 * r < b THEN q
        ELSE IF 2 * r > b THEN q + 1
        ELSE IF q % 2 = 0 THEN q ELSE q + 1

\* Series.nunique() / len(set(...)) of the USER_ID column.
nunique(df) == Cardinality({df[i].USER_ID : i \in DOMAIN df})

\* A shift over the whole frame, across the users.
PrevState_AcrossUsers(df_sorted) ==
    [k \in DOMAIN df_sorted |->
        IF k > 1 THEN Some(df_sorted[k - 1].State) ELSE None]

\* df.sort_values(['USER_ID', 'SESSION_NUMBER']), then
\* groupby('USER_ID')['STATE'].shift(1): the PREV_STATE column.
PrevState(df_sorted) ==
    [k \in DOMAIN df_sorted |->
        IF k > 1 /\ df_sorted[k - 1].USER_ID = df_sorted[k].USER_ID
        THEN Some(df_sorted[k - 1].State)
        ELSE None]

\* The cell counts of pd.crosstab(PREV_STATE, STATE).
CrossCounts(df_sorted) ==
    LET prev == PrevState(df_sorted)
    IN  [f \in States |-> [t \in States |->
            Cardinality({k \in DOMAIN df_sorted :
                            /\ prev[k] # None
                            /\ Value(prev[k]) = f
                            /\ df_sorted[k].State = t})]]

RowSum(matrix, f) ==
    matrix[f][1] + matrix[f][2] + matrix[f][3] + matrix[f][4]

\* A normalisation by the number of all transitions.
NormalizeAll(counts, f, t) ==
    LET total == RowSum(counts, 1) + RowSum(counts, 2)
                     + RowSum(counts, 3) + RowSum(counts, 4)
    IN  IF total = 0 THEN 0 ELSE RoundHalfEven(counts[f][t] * 1000, total)

\* normalize='index', * 100, reindex(fill_value=0), round(1): a cell in
\* tenths of a percent.  A from-state without transitions has no row in the
\* crosstab and is filled with 0.
NormalizeIndex(counts, f, t) ==
    IF RowSum(counts, f) = 0
    THEN 0
    ELSE RoundHalfEven(counts[f][t] * 1000, RowSum(counts, f))

calculate_transition_matrix(df, normalize) ==
    LET df_sorted == OrderBy(df, TRUE)
        counts    == CrossCounts(df_sorted)
    IN  IF normalize
        THEN [f \in States |-> [t \in States |-> NormalizeIndex(counts, f, t)]]
        ELSE counts

\* groupby(['USER_ID', 'STATE'])['SESSION_NUMBER'].agg(min, max): one row
\* for each (user, state) that occurs.
UserState(df) ==
    {[USER_ID |-> u, State |-> st,
      first_session |->
          CHOOSE n \in {df[i].SESSION_NUMBER :
                          i \in {j \in DOMAIN df : df[j].USER_ID = u /\ df[j].State = st}} :
              \A i \in DOMAIN df :
                  (df[i].USER_ID = u /\ df[i].State = st) => n <= df[i].SESSION_NUMBER,
      last_session |->
          CHOOSE n \in {df[i].SESSION_NUMBER :
                          i \in {j \in DOMAIN df : df[j].USER_ID = u /\ df[j].State = st}} :
              \A i \in DOMAIN df :
                  (df[i].USER_ID = u /\ df[i].State = st) => n >= df[i].SESSION_NUMBER]
        : <<u, st>> \in {<<df[i].USER_ID, df[i].State>> : i \in DOMAIN df}}

\* A pair filter on the first occurrence of both states.
Valid_FirstToFirst(from, to) ==
    /\ from.first_session < to.first_session
    /\ from.State # to.State

\* A pair filter that keeps the same-state pairs.
Valid_WithDiagonal(from, to) == from.first_session < to.last_session

\* pairs[(first_session_from < last_session_to) & (STATE_from != STATE_to)]
Valid(from, to) ==
    /\ from.first_session < to.last_session
    /\ from.State # to.State

calculate_user_ever_transition_matrix(df, normalize) ==
    LET user_state == UserState(df)
        pairs  == {<<a, b>> \in user_state \X user_state : a.USER_ID = b.USER_ID}
        valid  == {pr \in pairs : Valid(pr[1], pr[2])}
        matrix == [f \in States |-> [t \in States |->
                      Cardinality({pr[1].USER_ID :
                          pr \in {v \in valid : v[1].State = f /\ v[2].State = t}})]]
        users_per_state ==
            [st \in States |->
                LET InState(r) == r.State = st
                IN  nunique(SelectSeq(df, InState))]
    IN  IF normalize
        THEN [f \in States |-> [t \in States |->
                 IF users_per_state[f] > 0
                 THEN RoundHalfEven(matrix[f][t] * 1000, users_per_state[f])
                 ELSE matrix[f][t]]]
        ELSE matrix

----------------------------------------------------------------------------
(* Metrics: time to state and the flow graph *)

RECURSIVE Flatten(_)
Flatten(seqs) ==
    IF seqs = <<>> THEN <<>> ELSE Head(seqs) \o Flatten(Tail(seqs))

RECURSIVE SortedSeq(_)
SortedSeq(S) ==
    IF S = {}
    THEN <<>>
    ELSE LET m == CHOOSE x \in S : \A y \in S : x <= y
         IN  <<m>> \o SortedSeq(S \ {m})

\* The smallest SESSION_NUMBER of a non-empty frame.
MinSessionNumber(df) ==
    CHOOSE n \in {df[i].SESSION_NUMBER : i \in DOMAIN df} :
        \A i \in DOMAIN df : n <= df[i].SESSION_NUMBER

\* reached.merge(first_session, on='USER_ID'): an inner join, one row for
\* each pair of a reached row and a first-session row of the same user.
MergeOnUser(reached, first_session) ==
    Flatten([k \in DOMAIN reached |->
        LET SameUser(r) == r.USER_ID = reached[k].USER_ID
            matches == SelectSeq(first_session, SameUser)
        IN  [m \in DOMAIN matches |-> reached[k]]])

calculate_time_to_state(df, target_state) ==
    LET df_sorted == OrderBy(df, TRUE)
        AtTarget(r) == r.State >= target_state
        hit == SelectSeq(df_sorted, AtTarget)
        users == SortedSeq({hit[i].USER_ID : i \in DOMAIN hit})
        reached ==
            [k \in DOMAIN users |->
                LET OfUser(r) == r.USER_ID = users[k]
                IN  [USER_ID |-> users[k],
                     sessions_to_state |-> MinSessionNumber(SelectSeq(hit, OfUser))]]
        IsFirst(r) == r.SESSION_NUMBER = 1
        first_session == SelectSeq(df_sorted, IsFirst)
    IN  MergeOnUser(reached, first_session)

\* node_map[(session_num, state_num)]: ids in creation order, from 0.
NodeId(session_num, state_num) ==
    (session_num - 1) * Len(STATE_NAMES) + (state_num - 1)

\* Churn ids that start one too high.
ChurnedId_OffByOne(max_sessions, session_num) ==
    max_sessions * Len(STATE_NAMES) + session_num

\* node_map[(session_num, 'churned')]: the churn nodes come last.
ChurnedId(max_sessions, session_num) ==
    max_sessions * Len(STATE_NAMES) + (session_num - 1)

\* The users with a session of that number or a later one.
UsersAt_OrLater(df, session_num) ==
    {df[i].USER_ID : i \in {j \in DOMAIN df : df[j].SESSION_NUMBER >= session_num}}

\* set(df[df['SESSION_NUMBER'] == session_num]['USER_ID'])
UsersAt(df, session_num) ==
    {df[i].USER_ID : i \in {j \in DOMAIN df : df[j].SESSION_NUMBER = session_num}}

\* The users in that state at any ordinal.
UsersBySessionState_AnyOrdinal(df, session_num, state_num) ==
    {df[i].USER_ID : i \in {j \in DOMAIN df : df[j].State = state_num}}

\* users_by_session_state[(session_num, state_num)]
UsersBySessionState(df, session_num, state_num) ==
    {df[i].USER_ID : i \in {j \in DOMAIN df :
                               /\ df[j].SESSION_NUMBER = session_num
                               /\ df[j].State = state_num}}

\* The links one (session_num, from_state) pass of the loop appends: a link
\* to each state of the next session that shares users, then the churn link.
LinksFrom(df, max_sessions, session_num, from_state) ==
    LET next_session == session_num + 1
        next_session_users == UsersAt(df, next_session)
        from_users == UsersBySessionState(df, session_num, from_state)
        flows == [to_state \in States |->
                     [source |-> NodeId(session_num, from_state),
                      target |-> NodeId(next_session, to_state),
                      value  |-> Cardinality(from_users \cap
                                     UsersBySessionState(df, next_session, to_state))]]
        NonEmpty(link) == link.value > 0
        churned_users == from_users \ next_session_users
    IN  SelectSeq(flows, NonEmpty)
            \o (IF churned_users # {}
                THEN <<[source |-> NodeId(session_num, from_state),
                        target |-> ChurnedId(max_sessions, session_num),
                        value  |-> Cardinality(churned_users)]>>
                ELSE <<>>)

build_sankey_data(df, max_sessions) ==
    LET n == Len(STATE_NAMES)
        nodes ==
            [id \in 1..(max_sessions * n) |->
                [id |-> id - 1, session |-> ((id - 1) \div n) + 1,
                 state_name |-> STATE_NAMES[((id - 1) % n) + 1]]]
            \o [k \in 1..(max_sessions - 1) |->
                [id |-> max_sessions * n + k - 1, session |-> k,
                 state_name |-> "Churned"]]
        links ==
            Flatten([j \in 1..((max_sessions - 1) * n) |->
                LinksFrom(df, max_sessions, ((j - 1) \div n) + 1, ((j - 1) % n) + 1)])
    IN  [nodes |-> nodes, links |-> links]

----------------------------------------------------------------------------
(* Metrics: state distribution, cohort and channel rollups *)

\* count / total * 100, rounded to two decimals: hundredths of a percent.
Rate(count, total) == RoundHalfEven(count * 10000, total)

\* calculate_state_distribution(df), ungrouped: one row per state that
\* occurs, in state order; pct in tenths of a percent.
calculate_state_distribution(df) ==
    LET present == SortedSeq({df[i].State : i \in DOMAIN df})
    IN  [k \in DOMAIN present |->
            LET InState(r) == r.State = present[k]
                size == Len(SelectSeq(df, InState))
            IN  [State |-> present[k], STATE_NAME |-> STATE_NAMES[present[k]],
                 sessions |-> size,
                 pct |-> RoundHalfEven(size * 1000, Len(df))]]

\* calc_metrics of calculate_cohort_metrics on one group: None for a cohort
\* below the minimum size, otherwise the cohort's row (rounded as the
\* caller rounds it).
CohortRow(period, group, config) ==
    LET total_users == nunique(group)
        Is1(r) == r.State = 1
        Ge2(r) == r.State >= 2
        Is3(r) == r.State = 3
        Is4(r) == r.State = 4
        First(r) == r.SESSION_NUMBER = 1
        Later(r) == r.SESSION_NUMBER > 1
        session1 == SelectSeq(group, First)
    IN  IF total_users < config.min_cohort_size
        THEN None
        ELSE Some([COHORT_PERIOD |-> period,
                   total_users |-> total_users,
                   total_sessions |-> Len(group),
                   avg_sessions_per_user |-> RoundHalfEven(Len(group) * 100, total_users),
                   exploring_rate |-> Rate(nunique(SelectSeq(group, Is1)), total_users),
                   problem_aware_rate |-> Rate(nunique(SelectSeq(group, Ge2)), total_users),
                   purchase_ready_rate |-> Rate(nunique(SelectSeq(group, Is3)), total_users),
                   purchased_rate |-> Rate(nunique(SelectSeq(group, Is4)), total_users),
                   session1_purchase_rate |-> Rate(Len(SelectSeq(session1, Is4)), total_users),
                   return_rate |-> Rate(nunique(SelectSeq(group, Later)), total_users)])

\* The row of group k is NaN (calc_metrics returned None) and dropna()
\* drops it.
BelowMinimum(applied, k) == applied[k] = None

\* calculate_cohort_metrics.  columns is df.columns, df the rows.
\* groupby().apply(calc_metrics) over the non-null periods, in key order:
\*  - no group at all: the applied frame keeps df's columns, COHORT_PERIOD
\*    among them, and reset_index() cannot insert the index a second time;
\*  - every group returned None: apply gives a frame without any column,
\*    and metrics['COHORT_PERIOD'] is a KeyError;
\*  - otherwise one row per group, NaN for the None groups.
calculate_cohort_metrics(columns, df, config) ==
    IF "COHORT_PERIOD" \notin columns
    THEN Raised("ValueError")
    ELSE LET keys == SortedSeq({df[i].COHORT_PERIOD : i \in DOMAIN df} \ {NULL})
             applied ==
                 [k \in DOMAIN keys |->
                     LET InCohort(r) == r.COHORT_PERIOD = keys[k]
                     IN  CohortRow(keys[k], SelectSeq(df, InCohort), config)]
             kept == SelectSeq([k \in DOMAIN keys |-> k],
                               LAMBDA k : ~BelowMinimum(applied, k))
         IN  IF keys = <<>>
             THEN Raised("ValueError")
             ELSE IF \A k \in DOMAIN applied : applied[k] = None
             THEN Raised("KeyError")
             ELSE Rows_([j \in DOMAIN kept |-> Value(applied[kept[j]])])

\* str order of the channel names of the model ('' < 'F' < 'Fa' < 'G' < 'f').
SortedChannels == << <<>>, <<"F">>, <<"F", "a">>, <<"G">>, <<"f">> >>

\* df.merge(first_sessions, on='USER_ID', how='left'): a row for each pair
\* of a df row and a session-1 row of its user, with that row's channel as
\* FIRST_TOUCH_CHANNEL; a single row with a null channel when the user has
\* no session-1 row.  The result is the sequence of
\* <<row, FIRST_TOUCH_CHANNEL>> pairs.
MergeFirstTouch(df) ==
    LET IsFirst(r) == r.SESSION_NUMBER = 1
        first_sessions == SelectSeq(df, IsFirst)
    IN  Flatten([i \in DOMAIN df |->
            LET SameUser(r) == r.USER_ID = df[i].USER_ID
                matches == SelectSeq(first_sessions, SameUser)
            IN  IF matches = <<>>
                THEN << <<df[i], None>> >>
                ELSE [m \in DOMAIN matches |->
                        <<df[i],
                          matches[m].SESSION_FIRST_TRAFFIC_SOURCE_CHANNEL_GROUPING>>]])

\* calc_metrics of calculate_channel_metrics on one group.
ChannelRow(channel, group) ==
    LET total_users == nunique(group)
        Ge2(r) == r.State >= 2
        Is3(r) == r.State = 3
        Is4(r) == r.State = 4
        First(r) == r.SESSION_NUMBER = 1
        Later(r) == r.SESSION_NUMBER > 1
        session1 == SelectSeq(group, First)
    IN  [FIRST_TOUCH_CHANNEL |-> channel,
         total_users |-> total_users,
         purchased_users |-> nunique(SelectSeq(group, Is4)),
         purchase_rate |-> Rate(nunique(SelectSeq(group, Is4)), total_users),
         purchase_ready_users |-> nunique(SelectSeq(group, Is3)),
         purchase_ready_rate |-> Rate(nunique(SelectSeq(group, Is3)), total_users),
         problem_aware_rate |-> Rate(nunique(SelectSeq(group, Ge2)), total_users),
         avg_sessions |-> RoundHalfEven(Len(group) * 100, total_users),
         session1_purchase_rate |-> Rate(Len(SelectSeq(session1, Is4)), total_users),
         return_rate |-> Rate(nunique(SelectSeq(group, Later)), total_users)]

\* sort_values('total_users', ascending=False), equal counts kept in order.
RECURSIVE InsertByUsers(_, _)
InsertByUsers(row, sorted) ==
    IF sorted = <<>>
    THEN <<row>>
    ELSE IF row.total_users > Head(sorted).total_users
    THEN <<row>> \o sorted
    ELSE <<Head(sorted)>> \o InsertByUsers(row, Tail(sorted))

RECURSIVE SortByUsers(_)
SortByUsers(rows) ==
    IF rows = <<>>
    THEN <<>>
    ELSE InsertByUsers(rows[Len(rows)], SortByUsers(SubSeq(rows, 1, Len(rows) - 1)))

\* calculate_channel_metrics: groupby('FIRST_TOUCH_CHANNEL') leaves out the
\* rows whose key is null; without any group the applied frame keeps the
\* FIRST_TOUCH_CHANNEL column and reset_index() cannot insert it again.
calculate_channel_metrics(df, config) ==
    LET df_with_channel == MergeFirstTouch(df)
        HasKey(ch) == \E i \in DOMAIN df_with_channel :
                          df_with_channel[i][2] = Some(ch)
        keys == SelectSeq(SortedChannels, HasKey)
        metrics ==
            [k \in DOMAIN keys |->
                LET InGroup(pair) == pair[2] = Some(keys[k])
                    pairs == SelectSeq(df_with_channel, InGroup)
                IN  ChannelRow(keys[k], [i \in DOMAIN pairs |-> pairs[i][1]])]
    IN  IF keys = <<>>
        THEN Raised("ValueError")
        ELSE Rows_(SortByUsers(metrics))

----------------------------------------------------------------------------
(* The dashboard's metrics computation (src/dashboard/data.py) *)

\* compute_all_metrics: every metric set of one frame, or the exception
\* the first failing computation raises.
compute_all_metrics(columns, df, min_cohort_size, max_sankey_sessions) ==
    LET config == [DEFAULT_CONFIG EXCEPT
                      !.min_cohort_size = min_cohort_size,
                      !.max_sessions_for_sankey = max_sankey_sessions]
        cohort == IF "COHORT_PERIOD" \in columns
                  THEN calculate_cohort_metrics(columns, df, config)
                  ELSE Rows_(<<>>)
        channels == calculate_channel_metrics(df, config)
        total_users == nunique(df)
        Is4(r) == r.State = 4
        Later(r) == r.SESSION_NUMBER > 1
        kpis == [total_users |-> total_users,
                 total_sessions |-> Len(df),
                 purchase_rate |->
                     IF total_users # 0
                     THEN Rate(nunique(SelectSeq(df, Is4)), total_users) ELSE 0,
                 return_rate |->
                     IF total_users # 0
                     THEN Rate(nunique(SelectSeq(df, Later)), total_users) ELSE 0,
                 avg_sessions_per_user |->
                     IF total_users # 0
                     THEN RoundHalfEven(Len(df) * 100, total_users) ELSE 0]
    IN  IF cohort.status # "ok" THEN cohort
        ELSE IF channels.status # "ok" THEN channels
        ELSE [status |-> "ok",
              kpis |-> kpis,
              state_dist |-> calculate_state_distribution(df),
              transition_pct |-> calculate_transition_matrix(df, TRUE),
              transition_counts |-> calculate_transition_matrix(df, FALSE),
              user_transition_pct |-> calculate_user_ever_transition_matrix(df, TRUE),
              user_transition_counts |-> calculate_user_ever_transition_matrix(df, FALSE),
              cohort |-> cohort.rows,
              channels |-> channels.rows,
              time_to_purchase |-> calculate_time_to_state(df, 4),
              sankey |-> build_sankey_data(df, max_sankey_sessions)]

----------------------------------------------------------------------------
(* Calls of the analysis functions *)

\* The classified tables the metrics are called with.
MatrixTables ==
    SeqsUpTo(ClassifiedSessions({1, 2}, States, {Some(Facebook)}, {NULL}), MaxRows)

\* One user's history: sessions 1, 2, ... in the states of h.
HistoryTable(h) ==
    [k \in DOMAIN h |->
        [USER_ID |-> 1, SESSION_NUMBER |-> k, State |-> h[k],
         SESSION_FIRST_TRAFFIC_SOURCE_CHANNEL_GROUPING |-> Some(Facebook),
         COHORT_PERIOD |-> NULL]]

HistoryTables == {HistoryTable(h) : h \in SeqsUpTo(States, MaxHistory)}

\* What load_sessions_data hands on: _filter_to_cohort keeps the rows of the
\* users that have a row with SESSION_NUMBER == 1, whatever else they have.
FilteredToCohort(df) ==
    \A i \in DOMAIN df :
        \E j \in DOMAIN df : /\ df[j].USER_ID = df[i].USER_ID
                             /\ df[j].SESSION_NUMBER = 1

LoadedTables(rows) == {df \in SeqsUpTo(rows, MaxRows) : FilteredToCohort(df)}

TimeToStateTables ==
    LoadedTables(ClassifiedSessions({1, 2}, {1, 2, 4}, {Some(Facebook)}, {NULL}))

SankeyTables ==
    LoadedTables(ClassifiedSessions(1..MaxSankeySessions, {1, 4}, {Some(Facebook)},
                                    {NULL}))

CohortTables ==
    LoadedTables(ClassifiedSessions(1..MaxSankeySessions, {1, 4}, {Some(Facebook)},
                                    {0, 1}))

\* Tables that did not come through the loader and carry no cohort column.
NoCohortTables ==
    LoadedTables(ClassifiedSessions({1, 2}, {1, 4}, {Some(Facebook)}, {NULL}))

ChannelTables ==
    LoadedTables(ClassifiedSessions({1, 2}, {2, 4},
                                    {None, Some(Facebook), Some(<<"G">>)}, {NULL}))

BaseColumns ==
    {"USER_ID", "SESSION_NUMBER", "STATE",
     "SESSION_FIRST_TRAFFIC_SOURCE_CHANNEL_GROUPING"}

\* A frame with its columns: with COHORT_PERIOD, or without it.
Frames ==
    {[columns |-> BaseColumns \cup {"COHORT_PERIOD"}, df |-> df] : df \in CohortTables}
        \cup {[columns |-> BaseColumns, df |-> df] : df \in NoCohortTables}

MinCohortSizes == {1, 2}

\* The analysis functions are pure: a behaviour is one call, made on the
\* inputs the caller hands over.
Fresh == result.op = "init"

CalculateStateDistribution(df) ==
    /\ Fresh
    /\ result' = Call("calculate_state_distribution", [df |-> df],
                      calculate_state_distribution(df))
    /\ UNCHANGED <<store, procs, caches>>

CalculateTransitionMatrix(df, normalize) ==
    /\ Fresh
    /\ result' = Call("calculate_transition_matrix",
                      [df |-> df, normalize |-> normalize],
                      calculate_transition_matrix(df, normalize))
    /\ UNCHANGED <<store, procs, caches>>

CalculateUserEverTransitionMatrix(df, normalize) ==
    /\ Fresh
    /\ result' = Call("calculate_user_ever_transition_matrix",
                      [df |-> df, normalize |-> normalize],
                      calculate_user_ever_transition_matrix(df, normalize))
    /\ UNCHANGED <<store, procs, caches>>

BuildSankeyData(df, max_sessions) ==
    /\ Fresh
    /\ result' = Call("build_sankey_data",
                      [df |-> df, max_sessions |-> max_sessions],
                      build_sankey_data(df, max_sessions))
    /\ UNCHANGED <<store, procs, caches>>

CalculateCohortMetrics(frame, min_cohort_size) ==
    LET config == [DEFAULT_CONFIG EXCEPT !.min_cohort_size = min_cohort_size]
    IN  /\ Fresh
        /\ result' = Call("calculate_cohort_metrics",
                          [columns |-> frame.columns, df |-> frame.df,
                           config |-> config],
                          calculate_cohort_metrics(frame.columns, frame.df, config))
        /\ UNCHANGED <<store, procs, caches>>

CalculateChannelMetrics(df) ==
    /\ Fresh
    /\ result' = Call("calculate_channel_metrics", [df |-> df],
                      calculate_channel_metrics(df, DEFAULT_CONFIG))
    /\ UNCHANGED <<store, procs, caches>>

CalculateTimeToState(df, target_state) ==
    /\ Fresh
    /\ result' = Call("calculate_time_to_state",
                      [df |-> df, target_state |-> target_state],
                      calculate_time_to_state(df, target_state))
    /\ UNCHANGED <<store, procs, caches>>

ComputeAllMetrics(frame, min_cohort_size, max_sankey_sessions) ==
    /\ Fresh
    /\ result' = Call("compute_all_metrics",
                      [columns |-> frame.columns, df |-> frame.df,
                       min_cohort_size |-> min_cohort_size,
                       max_sankey_sessions |-> max_sankey_sessions],
                      compute_all_metrics(frame.columns, frame.df, min_cohort_size,
                                          max_sankey_sessions))
    /\ UNCHANGED <<store, procs, caches>>

InitAnalysis == Init /\ backend = "sqlite"

NextAnalysis ==
    \/ Fresh /\ \E cohort_start \in ConfigDates, cohort_end \in ConfigDates,
                   cohort_granularity \in Granularities,
                   min_cohort_size \in CohortSizes :
           NewConfig(cohort_start, cohort_end, cohort_granularity, min_cohort_size)
    \/ Fresh /\ \E s \in UnclassifiedSessions, sources \in ExploringSources :
           AssignStates(<<s>>, sources)
    \/ Fresh /\ \E df \in TimeToStateTables : CalculateStateDistribution(df)
    \/ Fresh /\ \E df \in MatrixTables \cup HistoryTables, normalize \in BOOLEAN :
           CalculateTransitionMatrix(df, normalize)
    \/ Fresh /\ \E df \in MatrixTables \cup HistoryTables, normalize \in BOOLEAN :
           CalculateUserEverTransitionMatrix(df, normalize)
    \/ Fresh /\ \E df \in SankeyTables, max_sessions \in 2..MaxSankeySessions :
           BuildSankeyData(df, max_sessions)
    \/ Fresh /\ \E frame \in Frames, min_cohort_size \in MinCohortSizes :
           CalculateCohortMetrics(frame, min_cohort_size)
    \/ Fresh /\ \E df \in ChannelTables : CalculateChannelMetrics(df)
    \/ Fresh /\ \E df \in TimeToStateTables, target_state \in {2, 4} :
           CalculateTimeToState(df, target_state)
    \/ Fresh /\ \E frame \in Frames, min_cohort_size \in MinCohortSizes,
                   max_sankey_sessions \in 2..MaxSankeySessions :
           ComputeAllMetrics(frame, min_cohort_size, max_sankey_sessions)

SpecAnalysis == InitAnalysis /\ [][NextAnalysis]_vars

----------------------------------------------------------------------------
(* Properties of the store under sequential calls (Spec) *)

Count(table, r) == Cardinality({i \in DOMAIN table : table[i] = r})

\* The same rows with the same multiplicities, in any order.
SameRows(a, b) == \A r \in Range(a) \cup Range(b) : Count(a, r) = Count(b, r)

LoggedHashes(log) == {e.file_hash : e \in log}

\* A fingerprint counts as recorded when the import log holds it, or when
\* the call right before this one was an ingestion of that fingerprint that
\* returned success (the ingestion the import record stands for).
Recorded(file_hash) ==
    \/ file_hash \in LoggedHashes(import_log)
    \/ /\ result.op = "ingest_csv"
       /\ result.ret.status = "success"
       /\ _file_hash(result.args.csv_path) = file_hash

\* C1. Idempotent ingestion: ingesting, without force, a batch whose
\* fingerprint is already recorded returns 'skipped' and leaves the stored
\* sessions as they were, on either backend.
C1_IdempotentIngestion ==
    [][(/\ result'.op = "ingest_csv"
        /\ result'.args.skip_if_imported
        /\ Recorded(_file_hash(result'.args.csv_path)))
       => (/\ result'.ret.status = "skipped"
           /\ sessions' = sessions)]_vars

\* C2. Session-id at-most-once storage: in every reachable store, each
\* session_id appears in the stored session table at most once.
C2_SessionIdAtMostOnce ==
    \A i, j \in DOMAIN sessions :
        sessions[i].SESSION_ID = sessions[j].SESSION_ID => i = j

\* C3. Ingest accounting: a batch that is not skipped never fails; the rows
\* appended are the batch rows whose session_id was not stored before,
\* new_rows counts them, duplicate_rows counts the batch rows whose
\* session_id was stored before, and the two add up to the batch size.
C3_IngestAccounting ==
    [][(/\ result'.op = "ingest_csv"
        /\ result'.ret.status # "skipped")
       => LET csv      == result'.args.csv_path
              stored   == SessionIds(sessions)
              isNew(r) == r.SESSION_ID \notin stored
              isDup(r) == r.SESSION_ID \in stored
          IN  /\ result'.ret.status = "success"
              /\ sessions' = sessions \o SelectSeq(csv, isNew)
              /\ result'.ret.new_rows = Len(sessions') - Len(sessions)
              /\ result'.ret.duplicate_rows = Len(SelectSeq(csv, isDup))
              /\ result'.ret.new_rows + result'.ret.duplicate_rows = Len(csv)]_vars

\* validate_data's verdict on a frame: every file of the model has all of
\* REQUIRED_COLUMNS, so a frame is invalid when a key column holds a null.
validate_data(df) ==
    [valid |-> \A i \in DOMAIN df : df[i].SESSION_NUMBER # NULL]

\* C7. Batch validation: ingesting a batch with a null key column reports an
\* error, admits no row of it and writes no import-log entry.
C7_InvalidBatchRejected ==
    [][(/\ result'.op = "ingest_csv"
        /\ ~validate_data(result'.args.csv_path).valid)
       => (/\ result'.ret.status = "error"
           /\ sessions' = sessions
           /\ import_log' = import_log)]_vars

\* The stored rows of one session_id.
Stored(table, session_id) == {r \in Range(table) : r.SESSION_ID = session_id}

\* C8. Store monotonicity: every call leaves each stored row where it was,
\* with its content, and adds no other content for a session_id that was
\* already stored.
C8_StoreMonotone ==
    [][/\ \A i \in DOMAIN sessions :
              i \in DOMAIN sessions' /\ sessions'[i] = sessions[i]
       /\ \A id \in SessionIds(sessions) :
              Stored(sessions', id) = Stored(sessions, id)]_vars

\* C8 witness: an ingestion that returned success although a row of its
\* batch carries a stored session_id with other field values; every row of
\* the batch was a duplicate, so the stored row is the earlier one.
C8_Witness ==
    /\ result.op = "ingest_csv"
    /\ result.ret.status = "success"
    /\ Len(result.args.csv_path) > 0
    /\ result.ret.duplicate_rows = Len(result.args.csv_path)
    /\ \E j \in DOMAIN result.args.csv_path, i \in DOMAIN sessions :
          /\ sessions[i].SESSION_ID = result.args.csv_path[j].SESSION_ID
          /\ sessions[i] # result.args.csv_path[j]

\* What the filters of a query ask for: every supplied filter holds of r.
Satisfies(r, args) ==
    /\ args.start_date # None => date(r.SESSION_START) >= Value(args.start_date)
    /\ args.end_date # None => date(r.SESSION_START) <= Value(args.end_date)
    /\ args.user_ids # None => r.USER_ID \in Value(args.user_ids)
    /\ args.min_session_number # None =>
           (r.SESSION_NUMBER # NULL
            /\ Value(args.min_session_number) <= r.SESSION_NUMBER)
    /\ args.max_session_number # None =>
           (r.SESSION_NUMBER # NULL
            /\ r.SESSION_NUMBER <= Value(args.max_session_number))

\* C9. Query filtering: query returns exactly the stored sessions that
\* satisfy every supplied filter (an empty user-id set and a bound of 0
\* are filters too), and the whole table when none is supplied.
C9_QueryFiltering ==
    result.op = "query" =>
        LET wanted(r) == Satisfies(r, result.args)
        IN  /\ result.ret.status = "ok"
            /\ SameRows(result.ret.rows, SelectSeq(sessions, wanted))

\* The users with a session_number = 1 row dated within [start, end].
CohortUsers(table, start, end) ==
    {r.USER_ID : r \in {x \in Range(table) :
                          /\ x.SESSION_NUMBER = 1
                          /\ start <= date(x.SESSION_START)
                          /\ date(x.SESSION_START) <= end}}

\* C10. Cohort query: get_cohort_sessions returns exactly the stored sessions
\* of the cohort's users and, with include_future = false, only those dated
\* on or before end.
C10_CohortSessions ==
    result.op = "get_cohort_sessions" =>
        LET a == result.args
            users == CohortUsers(sessions, a.cohort_start, a.cohort_end)
            wanted(r) ==
                /\ r.USER_ID \in users
                /\ a.include_future_sessions
                       \/ date(r.SESSION_START) <= a.cohort_end
        IN  /\ result.ret.status = "ok"
            /\ SameRows(result.ret.rows, SelectSeq(sessions, wanted))

----------------------------------------------------------------------------
(* Properties of overlapping and interrupted ingestion (SpecConc) *)

\* C4. Ingestion atomicity: a call that was cut short leaves none of its
\* rows in the session table unless the import log holds its fingerprint,
\* and a logged, completed call's new rows are in the table.
C4_IngestAtomic ==
    \A p \in Procs :
        /\ (ret[p].status = "interrupted" /\ ret[p].admitted)
               => _file_hash(ret[p].csv) \in LoggedHashes(import_log)
        /\ (/\ ret[p].status = "success"
            /\ _file_hash(ret[p].csv) \in LoggedHashes(import_log))
               => Range(ret[p].new_sessions) \subseteq Range(sessions)

Completed(p) == ret[p].status \in {"success", "error"}

\* C5. Concurrent ingestion serializes on the uniqueness check: when two
\* processes have each ingested a different batch (neither batch repeating
\* an id) and the batches share a session_id, neither call failed, at most
\* one of them took the id for new, and the id is stored exactly once.
C5_ConcurrentIngestSerialized ==
    \A p, q \in Procs :
        (/\ p # q
         /\ Completed(p) /\ Completed(q)
         /\ ret[p].csv # ret[q].csv
         /\ PrimaryKeyOk(ret[p].csv) /\ PrimaryKeyOk(ret[q].csv))
        => \A id \in SessionIds(ret[p].csv) \cap SessionIds(ret[q].csv) :
              /\ ret[p].status = "success" /\ ret[q].status = "success"
              /\ ~(/\ id \in SessionIds(ret[p].new_sessions)
                   /\ id \in SessionIds(ret[q].new_sessions))
              /\ Cardinality({i \in DOMAIN sessions :
                                 sessions[i].SESSION_ID = id}) = 1

\* C6. Snapshot reads: a query never returns a row that an ingest still in
\* progress has appended but not yet recorded in the import log.
C6_SnapshotReads ==
    [][result'.op = "query"
       => \A p \in Procs :
              proc[p].pc = "appended"
                  => \A i \in DOMAIN proc[p].new_sessions :
                         proc[p].new_sessions[i] \notin Range(result'.ret.rows)]_vars

----------------------------------------------------------------------------
(* Properties of the classifier, the metrics and the configuration
   (SpecAnalysis) *)

\* C11. Classifier totality and precedence: assign_states gives every
\* session exactly one state of 1..4, whatever its flags (true, false or
\* null), session number and channel; the state is 4 exactly when
\* has_purchase is true, and 3 exactly when has_purchase is not true and
\* has_add_to_cart or has_begin_checkout is true.
C11_ClassifierPrecedence ==
    result.op = "assign_states" =>
        /\ DOMAIN result.ret = DOMAIN result.args.df
        /\ \A i \in DOMAIN result.ret :
              LET r        == result.args.df[i]
                  st       == result.ret[i].State
                  purchase == r.HAS_PURCHASE = Some(TRUE)
                  cart     == \/ r.HAS_ADD_TO_CART = Some(TRUE)
                              \/ r.HAS_BEGIN_CHECKOUT = Some(TRUE)
              IN  /\ st \in 1..4
                  /\ st = 4 <=> purchase
                  /\ st = 3 <=> (~purchase /\ cart)

\* A session with has_purchase and has_add_to_cart both true was classified
\* Purchased.
C11_Witness ==
    /\ result.op = "assign_states"
    /\ result.args.df[1].HAS_PURCHASE = Some(TRUE)
    /\ result.args.df[1].HAS_ADD_TO_CART = Some(TRUE)
    /\ result.ret[1].State = 4

\* C12. Exploring vs Problem-Aware: a session without purchase, cart or
\* checkout flag is in state 1 exactly when its session_number is 1 and its
\* channel starts with a configured prefix, and in state 2 otherwise; so no
\* session whose session_number is not 1 is Exploring.
C12_ExploringOnlyFirstSession ==
    result.op = "assign_states" =>
        \A i \in DOMAIN result.ret :
            LET r       == result.args.df[i]
                st      == result.ret[i].State
                sources == result.args.config.exploring_traffic_sources
                channel == r.SESSION_FIRST_TRAFFIC_SOURCE_CHANNEL_GROUPING
                noflag  == /\ r.HAS_PURCHASE # Some(TRUE)
                           /\ r.HAS_ADD_TO_CART # Some(TRUE)
                           /\ r.HAS_BEGIN_CHECKOUT # Some(TRUE)
                matched == /\ channel # None
                           /\ \E k \in DOMAIN sources :
                                  startswith(Value(channel), sources[k])
            IN  noflag =>
                    /\ st \in {1, 2}
                    /\ st = 1 <=> (r.SESSION_NUMBER = 1 /\ matched)

\* The from-states of the session-level transitions of df: the states of
\* the sessions that have a next session of the same user.
Predecessors(df) ==
    LET df_sorted == OrderBy(df, TRUE)
    IN  {df_sorted[k].State :
            k \in {j \in 1..(Len(df_sorted) - 1) :
                      df_sorted[j].USER_ID = df_sorted[j + 1].USER_ID}}

C14_DiagonalEmpty ==
    result.op = "calculate_user_ever_transition_matrix" =>
        \A st \in States : result.ret[st][st] = 0

\* A user was in one state in two sessions and went on to another state,
\* and the matrix counts the move.
C14_Witness ==
    /\ result.op = "calculate_user_ever_transition_matrix"
    /\ \E i, j \in DOMAIN result.args.df :
          /\ result.args.df[i].USER_ID = result.args.df[j].USER_ID
          /\ result.args.df[i].State = result.args.df[j].State
          /\ result.args.df[i].SESSION_NUMBER < result.args.df[j].SESSION_NUMBER
    /\ \E f, t \in States : f # t /\ result.ret[f][t] > 0

RECURSIVE SumValues(_)
SumValues(links) ==
    IF links = <<>> THEN 0 ELSE Head(links).value + SumValues(Tail(links))

\* C15. Flow-graph conservation: for every ordinal k < max_sessions the
\* weights of the links that leave the state nodes of ordinal k (churn link
\* included) add up to the number of distinct users with a session k.
C15_FlowConservation ==
    result.op = "build_sankey_data" =>
        \A k \in 1..(result.args.max_sessions - 1) :
            LET Leaves(link) == link.source \in {NodeId(k, st) : st \in States}
            IN  SumValues(SelectSeq(result.ret.links, Leaves))
                    = Cardinality(UsersAt(result.args.df, k))

\* The cohort periods of df with at least min_cohort_size distinct users.
LargeCohorts(df, min_cohort_size) ==
    {p \in {df[i].COHORT_PERIOD : i \in DOMAIN df} \ {NULL} :
        Cardinality({df[i].USER_ID : i \in {j \in DOMAIN df : df[j].COHORT_PERIOD = p}})
            >= min_cohort_size}

\* C16. Cohort minimum size: on a (non-empty) table with cohort periods,
\* calculate_cohort_metrics returns a table, also when every cohort is
\* below the threshold, with one row for exactly the cohort periods that
\* have at least min_cohort_size distinct users.
C16_CohortMinimumSize ==
    (/\ result.op = "calculate_cohort_metrics"
     /\ "COHORT_PERIOD" \in result.args.columns
     /\ result.args.df # <<>>)
    => /\ result.ret.status = "ok"
       /\ LET large == LargeCohorts(result.args.df, result.args.config.min_cohort_size)
              rows  == result.ret.rows
          IN  /\ {rows[k].COHORT_PERIOD : k \in DOMAIN rows} = large
              /\ Len(rows) = Cardinality(large)

\* C17. Cohort metrics precondition: a request for cohort metrics on a
\* table without COHORT_PERIOD column fails, on every call path of the
\* metrics computation; none returns an empty cohort result instead.
C17_CohortPrecondition ==
    (/\ result.op \in {"calculate_cohort_metrics", "compute_all_metrics"}
     /\ "COHORT_PERIOD" \notin result.args.columns)
    => result.ret.status = "error"

\* C18. Channel metrics coverage: the table calculate_channel_metrics
\* returns counts every user of the input in exactly one channel row, so
\* the total_users of its rows add up to the number of distinct users, and
\* its rows are in descending order of total_users.
C18_ChannelCoverage ==
    (/\ result.op = "calculate_channel_metrics"
     /\ result.ret.status = "ok")
    => LET rows == result.ret.rows
           totals == [k \in DOMAIN rows |-> [value |-> rows[k].total_users]]
       IN  /\ SumValues(totals) = nunique(result.args.df)
           /\ \A k \in 1..(Len(rows) - 1) :
                  rows[k].total_users >= rows[k + 1].total_users

\* C19. Time-to-state membership: calculate_time_to_state(target) returns
\* exactly one row for every user with a session in a state >= target and
\* no other row, and the row's sessions_to_state is the smallest
\* session_number among those sessions of the user.
C19_TimeToStateMembership ==
    result.op = "calculate_time_to_state" =>
        LET df == result.args.df
            Hit(u) == {i \in DOMAIN df : /\ df[i].USER_ID = u
                                         /\ df[i].State >= result.args.target_state}
            reached == {u \in UserIds : Hit(u) # {}}
            rows == result.ret
        IN  /\ {rows[k].USER_ID : k \in DOMAIN rows} = reached
            /\ Len(rows) = Cardinality(reached)
            /\ \A k \in DOMAIN rows :
                   /\ \E i \in Hit(rows[k].USER_ID) :
                          df[i].SESSION_NUMBER = rows[k].sessions_to_state
                   /\ \A i \in Hit(rows[k].USER_ID) :
                          df[i].SESSION_NUMBER >= rows[k].sessions_to_state

\* C20. Configuration validation: a Config with an invalid granularity,
\* with cohort_start after cohort_end, or with a min_cohort_size that is
\* not positive is rejected when it is constructed.
C20_ConfigValidated ==
    result.op = "Config" =>
        LET self == result.args
            invalid ==
                \/ self.cohort_granularity \notin {"D", "W", "M"}
                \/ /\ self.cohort_start # None /\ self.cohort_end # None
                   /\ Value(self.cohort_start) > Value(self.cohort_end)
                \/ self.min_cohort_size <= 0
        IN  invalid => result.ret.status = "error"

\* The metric functions other than the cohort metrics.
OtherMetrics ==
    {"calculate_state_distribution", "calculate_transition_matrix",
     "calculate_user_ever_transition_matrix", "calculate_channel_metrics",
     "calculate_time_to_state", "build_sankey_data"}

\* C21. Empty-input degradation: called on a classified table without
\* rows, every metric function other than the cohort metrics returns an
\* empty result (no rows, an all-zero matrix, no links) and does not fail.
C21_EmptyInputDegrades ==
    (result.op \in OtherMetrics /\ result.args.df = <<>>) =>
        CASE result.op \in {"calculate_state_distribution", "calculate_time_to_state"} ->
                 result.ret = <<>>
          [] result.op \in {"calculate_transition_matrix",
                            "calculate_user_ever_transition_matrix"} ->
                 \A f \in States : \A t \in States : result.ret[f][t] = 0
          [] result.op = "calculate_channel_metrics" ->
                 result.ret.status = "ok" /\ result.ret.rows = <<>>
          [] result.op = "build_sankey_data" ->
                 result.ret.links = <<>>

\* C22. Flow-graph node ids: the nodes carry the ids 0, 1, 2, ... in
\* creation order: the 4 * max_sessions state nodes ordinal by ordinal and
\* state by state, then the max_sessions - 1 churn nodes ordinal by
\* ordinal; the nodes are those of any other table for the same
\* max_sessions, and every link starts and ends at the id of a node.
C22_NodeIds ==
    result.op = "build_sankey_data" =>
        LET nodes == result.ret.nodes
            links == result.ret.links
            m     == result.args.max_sessions
            ids   == {nodes[i].id : i \in DOMAIN nodes}
        IN  /\ Len(nodes) = 4 * m + (m - 1)
            /\ \A i \in DOMAIN nodes : nodes[i].id = i - 1
            /\ \A k \in 1..m : \A st \in States :
                   /\ nodes[4 * (k - 1) + st].session = k
                   /\ nodes[4 * (k - 1) + st].state_name = STATE_NAMES[st]
            /\ \A k \in 1..(m - 1) :
                   /\ nodes[4 * m + k].session = k
                   /\ nodes[4 * m + k].state_name = "Churned"
            /\ nodes = build_sankey_data(<<>>, m).nodes
            /\ \A j \in DOMAIN links :
                   links[j].source \in ids /\ links[j].target \in ids

\* A graph of three ordinals with a link into the last churn node.
C22_Witness ==
    /\ result.op = "build_sankey_data"
    /\ result.args.max_sessions = 3
    /\ \E j \in DOMAIN result.ret.links :
          result.ret.links[j].target = Len(result.ret.nodes) - 1
    /\ \E j \in DOMAIN result.ret.links :
          result.ret.links[j].target < 4 * 3

\* The sessions of df that come immediately before session i: the rows of
\* the same user with the next-lower session number the table holds.
ImmediatePredecessors(df, i) ==
    LET lower == {j \in DOMAIN df : /\ df[j].USER_ID = df[i].USER_ID
                                    /\ df[j].SESSION_NUMBER < df[i].SESSION_NUMBER}
    IN  {j \in lower : \A h \in lower : df[h].SESSION_NUMBER <= df[j].SESSION_NUMBER}

UniqueSessions(df) ==
    \A i, j \in DOMAIN df :
        (df[i].USER_ID = df[j].USER_ID /\ df[i].SESSION_NUMBER = df[j].SESSION_NUMBER)
            => i = j

EverMoved(df, from, to) ==
    {df[i].USER_ID : i \in {n \in DOMAIN df :
        /\ df[n].State = from
        /\ \E m \in DOMAIN df : /\ df[m].USER_ID = df[n].USER_ID
                                  /\ df[m].State = to
                                  /\ df[n].SESSION_NUMBER < df[m].SESSION_NUMBER}}

\* The users of df that are ever in state st.
EverIn(df, st) == {df[i].USER_ID : i \in {n \in DOMAIN df : df[n].State = st}}

\* C24. User-level 'ever' transitions: for distinct states from and to the
\* count cell is the number of users seen in from at some session and in
\* to at a later one (first occurrence of from before last occurrence of
\* to); the normalized cell is that count over the users ever seen in
\* from, as a percentage rounded to one decimal, and lies in 0..100.
C24_EverTransitions ==
    result.op = "calculate_user_ever_transition_matrix" =>
        LET df == result.args.df
        IN  \A from \in States : \A to \in States \ {from} :
                LET moved == Cardinality(EverMoved(df, from, to))
                    ever  == Cardinality(EverIn(df, from))
                IN  IF result.args.normalize
                    THEN /\ result.ret[from][to] \in 0..1000
                         /\ ever > 0 =>
                                result.ret[from][to] = RoundHalfEven(moved * 1000, ever)
                    ELSE result.ret[from][to] = moved

\* A normalized matrix in which half of the users of a state moved on.
C24_Witness ==
    /\ result.op = "calculate_user_ever_transition_matrix"
    /\ result.args.normalize
    /\ \E from, to \in States : from # to /\ result.ret[from][to] = 500

\* The id of the node of the list with that ordinal and state name.
IdOf(nodes, session_num, state_name) ==
    nodes[CHOOSE i \in DOMAIN nodes : /\ nodes[i].session = session_num
                                      /\ nodes[i].state_name = state_name].id

\* The users of df in state st at ordinal k.
InStateAt(df, k, st) ==
    {df[i].USER_ID : i \in {n \in DOMAIN df : /\ df[n].SESSION_NUMBER = k
                                               /\ df[n].State = st}}

\* The users of df with a session at ordinal k.
ActiveAt(df, k) ==
    {df[i].USER_ID : i \in {n \in DOMAIN df : df[n].SESSION_NUMBER = k}}

\* C25. Flow-graph link weights: for every ordinal k < max_sessions there
\* is a link from node (k, a) to node (k+1, b) exactly when some user is in
\* a at k and in b at k+1, weighing the number of such users, and a link
\* from node (k, a) to the churn node of k exactly when some user in a at k
\* has no session at k+1, weighing the number of such users; no link
\* weighs zero and there are no other links.
C25_LinkWeights ==
    result.op = "build_sankey_data" =>
        LET df    == result.args.df
            m     == result.args.max_sessions
            nodes == result.ret.nodes
            links == result.ret.links
            Src(k, a) == IdOf(nodes, k, STATE_NAMES[a])
            flow(k, a, b) == InStateAt(df, k, a) \cap InStateAt(df, k + 1, b)
            churn(k, a) == InStateAt(df, k, a) \ ActiveAt(df, k + 1)
            expected ==
                {[source |-> Src(k, a), target |-> Src(k + 1, b),
                  value |-> Cardinality(flow(k, a, b))] :
                    <<k, a, b>> \in {t \in (1..(m - 1)) \X States \X States :
                                        flow(t[1], t[2], t[3]) # {}}}
                \cup {[source |-> Src(k, a), target |-> IdOf(nodes, k, "Churned"),
                       value |-> Cardinality(churn(k, a))] :
                         <<k, a>> \in {t \in (1..(m - 1)) \X States :
                                          churn(t[1], t[2]) # {}}}
        IN  /\ {links[j] : j \in DOMAIN links} = expected
            /\ Len(links) = Cardinality(expected)
            /\ \A j \in DOMAIN links : links[j].value > 0

\* A user who skips an ordinal: a churn link after the first session
\* although the user comes back later.
C25_Witness ==
    /\ result.op = "build_sankey_data"
    /\ \E i, j \in DOMAIN result.args.df :
          /\ result.args.df[i].USER_ID = result.args.df[j].USER_ID
          /\ result.args.df[i].SESSION_NUMBER = 1
          /\ result.args.df[j].SESSION_NUMBER = 3
          /\ result.args.df[i].USER_ID \notin ActiveAt(result.args.df, 2)
    /\ \E j \in DOMAIN result.ret.links :
          result.ret.links[j].target >= 4 * result.args.max_sessions

\* Every user's session numbers are 1, 2, ... without repetition or gap.
ContiguousSessions(df) ==
    /\ UniqueSessions(df)
    /\ \A i \in DOMAIN df :
           \A n \in 1..df[i].SESSION_NUMBER : df[i].USER_ID \in ActiveAt(df, n)

\* C30. Matrix/flow agreement: on a table in which every user's session
\* numbers are unique and contiguous from 1, with max_sessions at least
\* the largest session number, cell (a, b) of the session-level count
\* matrix is the sum, over the ordinals k < max_sessions, of the weight of
\* the flow-graph link from node (k, a) to node (k+1, b).
C30_MatrixFlowAgreement ==
    (/\ result.op = "compute_all_metrics"
     /\ result.ret.status = "ok"
     /\ ContiguousSessions(result.args.df)
     /\ \A i \in DOMAIN result.args.df :
            result.args.df[i].SESSION_NUMBER <= result.args.max_sankey_sessions)
    => LET m     == result.args.max_sankey_sessions
           nodes == result.ret.sankey.nodes
           links == result.ret.sankey.links
           FromTo(a, b) ==
               LET Between(link) ==
                       \E k \in 1..(m - 1) :
                           /\ link.source = IdOf(nodes, k, STATE_NAMES[a])
                           /\ link.target = IdOf(nodes, k + 1, STATE_NAMES[b])
               IN  SumValues(SelectSeq(links, Between))
       IN  \A a \in States : \A b \in States :
               result.ret.transition_counts[a][b] = FromTo(a, b)

\* Metrics of a user with three sessions: transitions at two ordinals.
C30_Witness ==
    /\ result.op = "compute_all_metrics"
    /\ result.ret.status = "ok"
    /\ ContiguousSessions(result.args.df)
    /\ result.args.max_sankey_sessions = 3
    /\ \E i \in DOMAIN result.args.df : result.args.df[i].SESSION_NUMBER = 3
    /\ \E a, b \in States : result.ret.transition_counts[a][b] = 2

----------------------------------------------------------------------------
(* Further properties of the store under sequential calls (Spec) *)

\* C26. Import-log bookkeeping: every ingestion that is processed (not
\* skipped) leaves exactly one import-log entry for its fingerprint, the
\* one it wrote, and the entries of the other fingerprints as they were; a
\* forced re-run of a recorded fingerprint adds no second entry and admits
\* no row whose session_id was stored; a skipped call leaves the log alone.
C26_ImportLogBookkeeping ==
    [][result'.op = "ingest_csv" =>
          LET file_hash == _file_hash(result'.args.csv_path)
              mine      == {e \in import_log' : e.file_hash = file_hash}
          IN  /\ result'.ret.status = "skipped" => import_log' = import_log
              /\ result'.ret.status = "success" =>
                     /\ mine = {[file_hash |-> file_hash,
                                 rows_imported |-> result'.ret.new_rows]}
                     /\ import_log' \ mine
                            = {e \in import_log : e.file_hash # file_hash}
                     /\ \A i \in (Len(sessions) + 1)..Len(sessions') :
                            sessions'[i].SESSION_ID \notin SessionIds(sessions)]_vars

\* C28. Skip completeness: when an ingest call returns 'skipped' for a
\* batch, every session_id of that batch is in the store.
C28_SkipCompleteness ==
    (result.op = "ingest_csv" /\ result.ret.status = "skipped") =>
        SessionIds(result.args.csv_path) \subseteq SessionIds(sessions)

----------------------------------------------------------------------------
(* The same calls on a SQLite store and on a Parquet store *)

\* DataStore.__init__ as a value: the store a new DataStore starts from.
NewStore == [sessions |-> <<>>, parquet_exists |-> FALSE, import_log |-> {}]

\* DataStore.ingest_csv as a function of the store it is called on: the
\* store it leaves and what it returns (the function IngestCsv applies to
\* the variables).
ingest_csv(b, st, csv, skip_if_imported) ==
    LET file_hash == _file_hash(csv)
    IN  IF skip_if_imported /\ _already_imported(b, st.import_log, file_hash)
        THEN [store |-> st,
              stats |-> [status |-> "skipped", reason |-> "already_imported"]]
        ELSE IF b = "sqlite"
        THEN LET out == _ingest_to_sqlite(st.sessions, st.import_log, csv, file_hash)
             IN  [store |-> [st EXCEPT !.sessions = out.sessions,
                                       !.import_log = out.import_log],
                  stats |-> out.stats]
        ELSE LET out == _ingest_to_parquet(st.sessions, st.parquet_exists, csv, file_hash)
             IN  [store |-> [st EXCEPT !.sessions = out.sessions,
                                       !.parquet_exists = TRUE],
                  stats |-> out.stats]

\* A new store of backend b after the ingest calls of `calls`, in order,
\* with what each call returned.
RECURSIVE IngestAll(_, _)
IngestAll(b, calls) ==
    IF calls = <<>>
    THEN [store |-> NewStore, returned |-> <<>>]
    ELSE LET before == IngestAll(b, SubSeq(calls, 1, Len(calls) - 1))
             call   == calls[Len(calls)]
             out    == ingest_csv(b, before.store, call.csv_path,
                                  call.skip_if_imported)
         IN  [store |-> out.store,
              returned |-> Append(before.returned, out.stats)]

IngestCalls ==
    SeqsUpTo([csv_path : Files, skip_if_imported : BOOLEAN], MaxIngests)

\* The same sequence of ingest calls on a store of each backend.
IngestOnBoth(calls) ==
    /\ Fresh
    /\ result' = Call("ingest_csv", [calls |-> calls],
                      [b \in Backends |-> IngestAll(b, calls)])
    /\ UNCHANGED <<store, procs, caches>>

NextBackends == \E calls \in IngestCalls : IngestOnBoth(calls)

SpecBackends == Init /\ [][NextBackends]_vars

\* query() on a store value.
QueryStore(b, st, args) ==
    query(b, st.parquet_exists, st.sessions, args.start_date, args.end_date,
          args.user_ids, args.min_session_number, args.max_session_number)

\* C29. Backend equivalence: after the same sequence of ingest calls a
\* SQLite store and a Parquet store hold the same set of session records,
\* every call returned the same thing in both, and every query returns the
\* same rows in both.
C29_BackendEquivalence ==
    ~Fresh =>
        LET sqlite  == result.ret["sqlite"]
            parquet == result.ret["parquet"]
        IN  /\ Range(sqlite.store.sessions) = Range(parquet.store.sessions)
            /\ sqlite.returned = parquet.returned
            /\ \A args \in QueryArgs :
                   QueryStore("sqlite", sqlite.store, args)
                       = QueryStore("parquet", parquet.store, args)

----------------------------------------------------------------------------
(* The dashboard (src/dashboard/app.py over src/dashboard/data.py): every  *)
(* request is one run of the script, which reads the store through three   *)
(* st.cache_data functions.  The store is the SQLite store at the default  *)
(* path, which ingest_data.py writes as well.  The store's rows carry no   *)
(* event or channel columns here, so the classification, the first-touch   *)
(* filter and its cached channel list are left out, and the metrics are    *)
(* the KPIs that compute_all_metrics takes from the identifying columns.   *)
(* The granularity, minimum cohort size and exploring sources are part of  *)
(* both cache keys and stay at their defaults.                             *)

\* The last tick of the clock.
MaxClock == 2

\* Seconds per tick of the clock.
TickSeconds == 300

\* The most CSV files the data/ folder holds.
MaxDirFiles == 1

\* The most rows of a CSV file ingested while the dashboard runs.
MaxDashboardBatch == 1

\* @st.cache_data(ttl=...) of get_store_stats, load_and_process and
\* compute_all_metrics, in seconds.
StatsTtl == 3600

LoadTtl == 600

MetricsTtl == 600

\* A call of an st.cache_data function at time `now`: an entry of the key
\* that is younger than ttl is served; otherwise the function runs and its
\* value is stored under the key.  Entries that have expired are dropped.
Cached(entries, ttl, now, key, value) ==
    LET live == {e \in entries : (now - e.at) * TickSeconds < ttl}
        hit  == {e \in live : e.key = key}
    IN  IF hit # {}
        THEN [value |-> (CHOOSE e \in hit : TRUE).value, entries |-> live]
        ELSE [value |-> value,
              entries |-> live \cup {[key |-> key, value |-> value, at |-> now]}]

\* DataStore.get_stats, SQLite branch, without files_imported, which the
\* dashboard does not read.
get_stats(table) ==
    LET dates == {date(table[i].SESSION_START) : i \in DOMAIN table}
    IN  [total_sessions |-> Len(table),
         total_users    |-> nunique(table),
         date_range     |-> IF table = <<>>
                            THEN None
                            ELSE Some([min_date |-> CHOOSE d \in dates :
                                                       \A e \in dates : d <= e,
                                       max_date |-> CHOOSE d \in dates :
                                                       \A e \in dates : d >= e])]

\* _filter_to_cohort: the rows of the users with a first session in the
\* cohort range, merged with the (USER_ID, FIRST_SESSION_DATE) pairs of the
\* first sessions: one copy of a row per first-session date of its user.
_filter_to_cohort(df, cohort_start, cohort_end) ==
    LET first_dates(u) ==
            {date(df[i].SESSION_START) :
                i \in {j \in DOMAIN df : /\ df[j].USER_ID = u
                                         /\ df[j].SESSION_NUMBER = 1}}
        in_cohort(r) ==
            \E d \in first_dates(r.USER_ID) : d >= cohort_start /\ d <= cohort_end
        kept == SelectSeq(df, in_cohort)
    IN  Flatten([i \in DOMAIN kept |->
                    [k \in 1..Cardinality(first_dates(kept[i].USER_ID)) |-> kept[i]]])

\* load_and_process without its cache: load_sessions_data on the store,
\* with both cohort dates set.
load_and_process(table, cohort_start, cohort_end) ==
    _filter_to_cohort(
        get_cohort_sessions("sqlite", TRUE, table, cohort_start, cohort_end, TRUE).rows,
        cohort_start, cohort_end)

\* The KPIs of compute_all_metrics; the rates are kept as the counts they
\* are the quotient of.
kpis(df) ==
    LET later(r) == NumberGT(r, 1)
    IN  [total_users    |-> nunique(df),
         total_sessions |-> Len(df),
         returners      |-> nunique(SelectSeq(df, later))]

\* DataStore.ingest_directory: ingest_csv on each file in sorted order; an
\* exception of one call ends the loop.
RECURSIVE ingest_directory(_, _, _, _)
ingest_directory(b, st, files, skip_if_imported) ==
    IF files = <<>>
    THEN [store |-> st, results |-> <<>>, raised |-> FALSE]
    ELSE LET out == ingest_csv(b, st, Head(files), skip_if_imported)
         IN  IF out.stats.status = "error"
             THEN [store |-> out.store, results |-> <<>>, raised |-> TRUE]
             ELSE LET rest == ingest_directory(b, out.store, Tail(files),
                                               skip_if_imported)
                  IN  [store   |-> rest.store,
                       results |-> <<out.stats>> \o rest.results,
                       raised  |-> rest.raised]

\* The dates the requests' cohort range starts and ends at: the last of
\* the cohort dates.
DashboardDates == {d \in CohortDates : \A e \in CohortDates : e <= d}

\* The sidebar's widgets: the cohort date range and the Sankey slider.
Filters ==
    {f \in [cohort_start : DashboardDates, cohort_end : DashboardDates,
            max_sankey_sessions : 2..MaxSankeySessions] :
        f.cohort_start <= f.cohort_end}

\* st.date_input(min_value=data_min, max_value=data_max): the bounds come
\* from the store stats, or from fixed dates while the stats have none.
Selectable(stats, filters) ==
    stats.date_range # None =>
        /\ Value(stats.date_range).min_date <= filters.cohort_start
        /\ filters.cohort_end <= Value(stats.date_range).max_date

\* The CSV files that are ingested while the dashboard runs.
DashboardFiles == SeqsUpTo(Rows, MaxDashboardBatch)

\* The CSV files of the data/ folder, in sorted order.
Directories == SeqsUpTo(DashboardFiles, MaxDirFiles)

\* One run of the script for a request with the given filters (the ingest
\* button not pressed): stats, table and metrics, each through its cache.
RunScript(filters) ==
    LET stats   == Cached(cache.get_store_stats, StatsTtl, clock, "sessions.db",
                          get_stats(sessions))
        df      == Cached(cache.load_and_process, LoadTtl, clock,
                          <<filters.cohort_start, filters.cohort_end>>,
                          load_and_process(sessions, filters.cohort_start,
                                           filters.cohort_end))
        metrics == Cached(cache.compute_all_metrics, MetricsTtl, clock,
                          <<filters.max_sankey_sessions, filters.cohort_start,
                            filters.cohort_end>>,
                          kpis(df.value))
    IN  /\ backend = "sqlite"
        /\ Selectable(stats.value, filters)
        /\ IF df.value = <<>>
           THEN /\ cache' = [cache EXCEPT !.get_store_stats = stats.entries,
                                          !.load_and_process = df.entries]
                /\ result' = Call("app", filters,
                                  [stats |-> stats.value, df |-> df.value,
                                   metrics |-> None])
           ELSE /\ cache' = [get_store_stats     |-> stats.entries,
                             load_and_process    |-> df.entries,
                             compute_all_metrics |-> metrics.entries]
                /\ result' = Call("app", filters,
                                  [stats |-> stats.value, df |-> df.value,
                                   metrics |-> Some(metrics.value)])
        /\ UNCHANGED <<store, procs, clock>>

\* A run of the script with the ingest button pressed: the stats for the
\* sidebar, ingest_directory on the data/ folder, then every cache cleared
\* and a rerun asked for.  An exception of the ingestion ends the run.
IngestButton(directory) ==
    LET stats == Cached(cache.get_store_stats, StatsTtl, clock, "sessions.db",
                        get_stats(sessions))
        st    == [sessions |-> sessions, parquet_exists |-> parquet_exists,
                  import_log |-> import_log]
        out   == ingest_directory("sqlite", st, directory, TRUE)
    IN  /\ backend = "sqlite"
        /\ sessions' = out.store.sessions
        /\ import_log' = out.store.import_log
        /\ cache' = IF out.raised
                    THEN [cache EXCEPT !.get_store_stats = stats.entries]
                    ELSE NoCache
        /\ result' = Call("ingest_button", [directory |-> directory],
                          [raised |-> out.raised, results |-> out.results])
        /\ UNCHANGED <<backend, parquet_exists, procs, clock>>

\* Time passes.
Tick ==
    /\ clock < MaxClock
    /\ clock' = clock + 1
    /\ UNCHANGED <<store, result, procs, cache>>

InitDashboard == Init /\ backend = "sqlite"

\* Requests to the dashboard, its ingest button, ingest_data.py run from
\* the command line on the same store, and the passing of time.
NextDashboard ==
    \/ \E filters \in Filters : RunScript(filters)
    \/ \E directory \in Directories : IngestButton(directory)
    \/ \E csv \in DashboardFiles, skip \in BOOLEAN : IngestCsv(csv, skip)
    \/ Tick

SpecDashboard == InitDashboard /\ [][NextDashboard]_vars


\* C27. Cache invalidation: an ingestion that admits new rows leaves no
\* cached stats, table or metrics behind; a request is answered with the
\* table of the store as it is, never with one loaded before an ingestion,
\* and with the metrics computed from the table it is answered with.
C27_CacheInvalidation ==
    [][/\ (result'.op \in {"ingest_csv", "ingest_button"} /\ sessions' # sessions)
           => cache' = NoCache
       /\ (result'.op = "app" /\ clock' = clock) =>
              LET filters == result'.args
                  page    == result'.ret
              IN  /\ page.stats = get_stats(sessions)
                  /\ page.df = load_and_process(sessions, filters.cohort_start,
                                                filters.cohort_end)
                  /\ page.metrics # None =>
                         Value(page.metrics) = kpis(page.df)]_vars

====
